---- MODULE Spec2Model ----
(***************************************************************************)
(* Model of truncate/deleter.go: one deleter (a table's deletion           *)
(* controller), its row-count goroutine, the caller of deleteRows and the  *)
(* caller of parentDeletionStarted, and the table they act on.             *)
(*                                                                         *)
(* The deleter's fields are shared by the three threads of control without *)
(* synchronisation, so every read and every write of d.status is a step of *)
(* its own: a test followed by an assignment is two steps, and the other   *)
(* threads may run between them.                                           *)
(***************************************************************************)
EXTENDS Integers, Naturals, FiniteSets, Sequences, TLC

\* Largest number of matching rows the table holds in the model.
MaxRows == 2

\* Ticks of the model's clock in a second, and the bits of the model's
\* time.Duration. (time.Duration is an int64 count of nanoseconds; the model
\* keeps its two's-complement arithmetic on a word and a tick that can be
\* enumerated.)
Second == 2
DurationBits == 8

\* type status int, const ( ... iota ... )
statusAnalyzing == 0
statusWaiting == 1
statusDeleting == 2
statusCascadeDeleting == 3
statusCompleted == 4

Statuses == {statusAnalyzing, statusWaiting, statusDeleting,
             statusCascadeDeleting, statusCompleted}

\* Value of the history variables before the event they record.
None == 0 - 1

VARIABLES
    status,        \* d.status
    totalRows,     \* d.totalRows
    remainedRows,  \* d.remainedRows
    rows,          \* rows of the table matching the where clause, now
    staleRows,     \* the same, as of the timestamp a stale read is served at
    canceled,      \* ctx.Done() is closed
    spc,           \* position of the goroutine of startRowCountUpdater
    count,         \* updateRowCount's local variable count
    dpc,           \* position of the caller of deleteRows
    ppc,           \* position of the caller of parentDeletionStarted
    \* history variables (no code reads them)
    firstCount,    \* count of the first successful sample, None before it
    prevStatus,    \* value d.status had before its latest write
    everCompleted, \* d.status has been statusCompleted at some time
    delStarted,    \* deleteRows has been called
    parDelivered,  \* parentDeletionStarted has been called
    lastErr,       \* what the latest deleteRows returned: "nil", "err"; "none" before
    primResult,    \* what the latest PartitionedUpdate returned, likewise
    issued,        \* PartitionedUpdate calls issued by the latest deleteRows
    lastCount,     \* count of the latest successful sample, None before it
    \* construction parameters
    tableName,     \* d.tableName
    whereClause,   \* d.whereClause
    \* one iteration's timing (the sampler's loop body, on its own)
    elapsed,       \* time.Since(begin)
    sleepDuration, \* the argument of time.Sleep
    slept          \* time.Sleep has been called

dvars == <<status, totalRows, remainedRows>>
hvars == <<firstCount, prevStatus, everCompleted, delStarted, parDelivered, lastErr>>
cvars == <<tableName, whereClause>>
tvars == <<elapsed, sleepDuration, slept>>
vars == <<status, totalRows, remainedRows, rows, staleRows, canceled, spc, count,
          dpc, ppc, firstCount, prevStatus, everCompleted, delStarted,
          parDelivered, lastErr, primResult, issued, lastCount, tableName,
          whereClause, elapsed, sleepDuration, slept>>

\* &deleter{tableName, whereClause, client}: the zero value of every other field.
\* The table holds any number of matching rows.
Constructed ==
    /\ status = statusAnalyzing
    /\ totalRows = 0
    /\ remainedRows = 0
    /\ rows \in 0..MaxRows
    /\ staleRows = rows
    /\ canceled = FALSE
    /\ spc = "off"
    /\ count = 0
    /\ dpc = "idle"
    /\ ppc = "idle"
    /\ firstCount = None
    /\ prevStatus = None
    /\ everCompleted = FALSE
    /\ delStarted = FALSE
    /\ parDelivered = FALSE
    /\ lastErr = "none"
    /\ primResult = "none"
    /\ issued = 0
    /\ lastCount = None
    /\ tableName = "Singers"
    /\ whereClause = "true"

\* The deleter as constructed, before its loop has timed any query.
Init ==
    /\ Constructed
    /\ elapsed = 0
    /\ sleepDuration = 0
    /\ slept = FALSE

(***************************************************************************)
(* The table and the context.                                              *)
(***************************************************************************)

\* Another client adds a matching row ("even if new rows are added to the table").
Insert ==
    /\ rows < MaxRows
    /\ rows' = rows + 1
    /\ UNCHANGED <<dvars, staleRows, canceled, spc, count, dpc, ppc, hvars,
                   cvars, tvars, primResult, issued, lastCount>>

\* Matching rows go without this deleter's deleteRows: the parent table's
\* delete removes them ("deleting rows by parent in cascaded way").
CascadeDelete ==
    /\ rows > 0
    /\ \E left \in 0..(rows - 1) : rows' = left
    /\ UNCHANGED <<dvars, staleRows, canceled, spc, count, dpc, ppc, hvars,
                   cvars, tvars, primResult, issued, lastCount>>

\* Time passes: the timestamp of spanner.ExactStaleness(time.Second) reaches
\* the table's present contents.
Tick ==
    /\ staleRows # rows
    /\ staleRows' = rows
    /\ UNCHANGED <<dvars, rows, canceled, spc, count, dpc, ppc, hvars,
                   cvars, tvars, primResult, issued, lastCount>>

\* The owner of ctx cancels it.
Cancel ==
    /\ ~canceled
    /\ canceled' = TRUE
    /\ UNCHANGED <<dvars, rows, staleRows, spc, count, dpc, ppc, hvars,
                   cvars, tvars, primResult, issued, lastCount>>

(***************************************************************************)
(* deleteRows                                                              *)
(***************************************************************************)

\* A deleteRows that starts the progress figures afresh: d.remainedRows = 0.
deleteRowsResetsCounts ==
    /\ dpc = "idle"
    /\ status' = statusDeleting
    /\ prevStatus' = status
    /\ delStarted' = TRUE
    /\ issued' = 1
    /\ dpc' = "pdml"
    /\ remainedRows' = 0
    /\ UNCHANGED <<totalRows, rows, staleRows, canceled, spc, count,
                   ppc, firstCount, everCompleted, parDelivered, lastErr,
                   cvars, tvars, primResult, lastCount>>

\* d.status = statusDeleting, then the statement is built and
\* PartitionedUpdate is issued.
deleteRows ==
    /\ dpc = "idle"
    /\ status' = statusDeleting
    /\ prevStatus' = status
    /\ delStarted' = TRUE
    /\ issued' = 1
    /\ dpc' = "pdml"
    /\ UNCHANGED <<totalRows, remainedRows, rows, staleRows, canceled, spc, count,
                   ppc, firstCount, everCompleted, parDelivered, lastErr,
                   cvars, tvars, primResult, lastCount>>

\* A deleteRows that marks the deleter completed when its delete succeeds.
PartitionedUpdateOkCompletes ==
    /\ dpc = "pdml"
    /\ ~canceled
    /\ rows' = 0
    /\ primResult' = "nil"
    /\ lastErr' = "nil"
    /\ dpc' = "idle"
    /\ status' = statusCompleted
    /\ prevStatus' = status
    /\ everCompleted' = TRUE
    /\ UNCHANGED <<totalRows, remainedRows, staleRows, canceled, spc, count, ppc,
                   firstCount, delStarted, parDelivered,
                   cvars, tvars, issued, lastCount>>

\* PartitionedUpdate returns nil: every matching row is gone. return err (nil).
PartitionedUpdateOk ==
    /\ dpc = "pdml"
    /\ ~canceled
    /\ rows' = 0
    /\ primResult' = "nil"
    /\ lastErr' = "nil"
    /\ dpc' = "idle"
    /\ UNCHANGED <<dvars, staleRows, canceled, spc, count, ppc, firstCount,
                   prevStatus, everCompleted, delStarted, parDelivered,
                   cvars, tvars, issued, lastCount>>

\* A deleteRows that puts d.status back to what it was when the delete fails.
PartitionedUpdateErrRollsBack ==
    /\ dpc = "pdml"
    /\ \E left \in 0..rows : rows' = left
    /\ primResult' = "err"
    /\ lastErr' = "err"
    /\ dpc' = "idle"
    /\ status' = IF prevStatus = None THEN status ELSE prevStatus
    /\ prevStatus' = status
    /\ UNCHANGED <<totalRows, remainedRows, staleRows, canceled, spc, count, ppc,
                   firstCount, everCompleted, delStarted, parDelivered,
                   cvars, tvars, issued, lastCount>>

\* A deleteRows that issues the statement a second time when the first fails.
PartitionedUpdateErrRetries ==
    /\ dpc = "pdml"
    /\ \E left \in 0..rows : rows' = left
    /\ primResult' = "err"
    /\ IF issued < 2
         THEN /\ issued' = issued + 1
              /\ UNCHANGED <<dpc, lastErr>>
         ELSE /\ lastErr' = "err"
              /\ dpc' = "idle"
              /\ UNCHANGED issued
    /\ UNCHANGED <<dvars, staleRows, canceled, spc, count, ppc, firstCount,
                   prevStatus, everCompleted, delStarted, parDelivered,
                   cvars, tvars, lastCount>>

\* PartitionedUpdate returns an error (always, once ctx is canceled); the
\* partitions already committed stay deleted. return err.
PartitionedUpdateErr ==
    /\ dpc = "pdml"
    /\ \E left \in 0..rows : rows' = left
    /\ primResult' = "err"
    /\ lastErr' = "err"
    /\ dpc' = "idle"
    /\ UNCHANGED <<dvars, staleRows, canceled, spc, count, ppc, firstCount,
                   prevStatus, everCompleted, delStarted, parDelivered,
                   cvars, tvars, issued, lastCount>>

(***************************************************************************)
(* parentDeletionStarted                                                   *)
(***************************************************************************)

\* The orchestrator calls d.parentDeletionStarted().
parentDeletionStartedCall ==
    /\ ppc = "idle"
    /\ ppc' = "called"
    /\ parDelivered' = TRUE
    /\ UNCHANGED <<dvars, rows, staleRows, canceled, spc, count, dpc, firstCount,
                   prevStatus, everCompleted, delStarted, lastErr,
                   cvars, tvars, primResult, issued, lastCount>>

\* A parentDeletionStarted that acts only on a deleter that has not started
\* deleting: if d.status == statusAnalyzing || d.status == statusWaiting.
parentDeletionStartedTestNarrow ==
    /\ ppc = "called"
    /\ ppc' = IF status \in {statusAnalyzing, statusWaiting} THEN "write" ELSE "idle"
    /\ UNCHANGED <<dvars, rows, staleRows, canceled, spc, count, dpc, hvars,
                   cvars, tvars, primResult, issued, lastCount>>

\* if d.status != statusCompleted: the read of d.status.
parentDeletionStartedTest ==
    /\ ppc = "called"
    /\ ppc' = IF status # statusCompleted THEN "write" ELSE "idle"
    /\ UNCHANGED <<dvars, rows, staleRows, canceled, spc, count, dpc, hvars,
                   cvars, tvars, primResult, issued, lastCount>>

\* d.status = statusCascadeDeleting, and the return.
parentDeletionStartedSet ==
    /\ ppc = "write"
    /\ status' = statusCascadeDeleting
    /\ prevStatus' = status
    /\ ppc' = "idle"
    /\ UNCHANGED <<totalRows, remainedRows, rows, staleRows, canceled, spc, count,
                   dpc, firstCount, everCompleted, delStarted, parDelivered, lastErr,
                   cvars, tvars, primResult, issued, lastCount>>

(***************************************************************************)
(* startRowCountUpdater and updateRowCount                                 *)
(***************************************************************************)

\* go func() { ... }(): the goroutine exists and is at the top of its loop.
startRowCountUpdater ==
    /\ spc = "off"
    /\ spc' = "check"
    /\ UNCHANGED <<dvars, rows, staleRows, canceled, count, dpc, ppc, hvars,
                   cvars, tvars, primResult, issued, lastCount>>

\* for { if d.status == statusCompleted { return } ...
LoopCheck ==
    /\ spc = "check"
    /\ spc' = IF status = statusCompleted THEN "done" ELSE "query"
    /\ UNCHANGED <<dvars, rows, staleRows, canceled, count, dpc, ppc, hvars,
                   cvars, tvars, primResult, issued, lastCount>>

\* txn.Query(ctx, stmt).Do(...) succeeds: count is the stale read's COUNT(*).
QueryOk ==
    /\ spc = "query"
    /\ ~canceled
    /\ count' = staleRows
    /\ spc' = "counts"
    /\ UNCHANGED <<dvars, rows, staleRows, canceled, dpc, ppc, hvars,
                   cvars, tvars, primResult, issued, lastCount>>

\* A goroutine that gives up on the first query error: the loop returns.
QueryErrStops ==
    /\ spc = "query"
    /\ spc' = "done"
    /\ UNCHANGED <<dvars, rows, staleRows, canceled, count, dpc, ppc, hvars,
                   cvars, tvars, primResult, issued, lastCount>>

\* The query fails (always, once ctx is canceled): updateRowCount returns err,
\* which the loop ignores.
QueryErr ==
    /\ spc = "query"
    /\ spc' = "sleep"
    /\ UNCHANGED <<dvars, rows, staleRows, canceled, count, dpc, ppc, hvars,
                   cvars, tvars, primResult, issued, lastCount>>

\* An updateRowCount that writes both counts under the one test:
\* if d.totalRows == 0 { d.totalRows = uint64(count); d.remainedRows = uint64(count) }
SetCountsOnce ==
    /\ spc = "counts"
    /\ totalRows' = IF totalRows = 0 THEN count ELSE totalRows
    /\ remainedRows' = IF totalRows = 0 THEN count ELSE remainedRows
    /\ firstCount' = IF firstCount = None THEN count ELSE firstCount
    /\ lastCount' = count
    /\ spc' = "status"
    /\ UNCHANGED <<status, rows, staleRows, canceled, count, dpc, ppc, prevStatus,
                   everCompleted, delStarted, parDelivered, lastErr,
                   cvars, tvars, primResult, issued>>

\* if d.totalRows == 0 { d.totalRows = uint64(count) }; d.remainedRows = uint64(count)
SetCounts ==
    /\ spc = "counts"
    /\ totalRows' = IF totalRows = 0 THEN count ELSE totalRows
    /\ remainedRows' = count
    /\ firstCount' = IF firstCount = None THEN count ELSE firstCount
    /\ lastCount' = count
    /\ spc' = "status"
    /\ UNCHANGED <<status, rows, staleRows, canceled, count, dpc, ppc, prevStatus,
                   everCompleted, delStarted, parDelivered, lastErr,
                   cvars, tvars, primResult, issued>>

\* An updateRowCount without the move to statusWaiting:
\* if count == 0 { d.status = statusCompleted }
TestCountNoWaiting ==
    /\ spc = "status"
    /\ IF count = 0
         THEN /\ status' = statusCompleted
              /\ prevStatus' = status
              /\ everCompleted' = TRUE
         ELSE UNCHANGED <<status, prevStatus, everCompleted>>
    /\ spc' = "sleep"
    /\ count' = 0
    /\ UNCHANGED <<totalRows, remainedRows, rows, staleRows, canceled, dpc,
                   ppc, firstCount, delStarted, parDelivered, lastErr,
                   cvars, tvars, primResult, issued, lastCount>>

\* An updateRowCount with its two tests in the other order:
\* if d.status == statusAnalyzing { ... } else if count == 0 { ... }.
TestCountSwapped ==
    /\ spc = "status"
    /\ IF status = statusAnalyzing
         THEN /\ spc' = "setWaiting"
              /\ UNCHANGED <<status, prevStatus, everCompleted, count>>
         ELSE IF count = 0
           THEN /\ status' = statusCompleted
                /\ prevStatus' = status
                /\ everCompleted' = TRUE
                /\ spc' = "sleep"
                /\ count' = 0
           ELSE /\ spc' = "sleep"
                /\ count' = 0
                /\ UNCHANGED <<status, prevStatus, everCompleted>>
    /\ UNCHANGED <<totalRows, remainedRows, rows, staleRows, canceled, dpc,
                   ppc, firstCount, delStarted, parDelivered, lastErr,
                   cvars, tvars, primResult, issued, lastCount>>

\* if count == 0 { d.status = statusCompleted } else if d.status == statusAnalyzing {
\* The first branch writes d.status, the second only reads it. Where the
\* function returns, count is gone: the next call declares it anew (var count int64).
TestCount ==
    /\ spc = "status"
    /\ IF count = 0
         THEN /\ status' = statusCompleted
              /\ prevStatus' = status
              /\ everCompleted' = TRUE
              /\ spc' = "sleep"
              /\ count' = 0
         ELSE /\ spc' = IF status = statusAnalyzing THEN "setWaiting" ELSE "sleep"
              /\ count' = IF status = statusAnalyzing THEN count ELSE 0
              /\ UNCHANGED <<status, prevStatus, everCompleted>>
    /\ UNCHANGED <<totalRows, remainedRows, rows, staleRows, canceled, dpc,
                   ppc, firstCount, delStarted, parDelivered, lastErr,
                   cvars, tvars, primResult, issued, lastCount>>

\* d.status = statusWaiting, and return nil.
SetWaiting ==
    /\ spc = "setWaiting"
    /\ status' = statusWaiting
    /\ prevStatus' = status
    /\ spc' = "sleep"
    /\ count' = 0
    /\ UNCHANGED <<totalRows, remainedRows, rows, staleRows, canceled, dpc,
                   ppc, firstCount, everCompleted, delStarted, parDelivered, lastErr,
                   cvars, tvars, primResult, issued, lastCount>>

\* time.Sleep(sleepDuration), and back to the top of the loop.
Sleep ==
    /\ spc = "sleep"
    /\ spc' = "check"
    /\ UNCHANGED <<dvars, rows, staleRows, canceled, count, dpc, ppc, hvars,
                   cvars, tvars, primResult, issued, lastCount>>

Sampler == LoopCheck \/ QueryOk \/ QueryErr \/ SetCounts \/ TestCount \/ SetWaiting \/ Sleep

Next ==
    \/ Insert
    \/ CascadeDelete
    \/ Tick
    \/ Cancel
    \/ deleteRows
    \/ PartitionedUpdateOk
    \/ PartitionedUpdateErr
    \/ parentDeletionStartedCall
    \/ parentDeletionStartedTest
    \/ parentDeletionStartedSet
    \/ startRowCountUpdater
    \/ LoopCheck
    \/ QueryOk
    \/ QueryErr
    \/ SetCounts
    \/ TestCount
    \/ SetWaiting
    \/ Sleep

Spec == Init /\ [][Next]_vars

(***************************************************************************)
(* The timing of one iteration of the loop. The duration of the sleep has  *)
(* no effect on the deleter, so it is modelled on its own: the query takes *)
(* any time, and the loop computes its sleep from it.                      *)
(***************************************************************************)

\* const thirtySeconds = 30 * time.Second
thirtySeconds == 30 * Second

\* math.MaxInt64, the largest time.Duration
MaxDuration == 2 ^ (DurationBits - 1) - 1

\* The value an int64 operation leaves when its exact result is x.
Wrap(x) == ((x + 2 ^ (DurationBits - 1)) % (2 ^ DurationBits)) - 2 ^ (DurationBits - 1)

\* sleepDuration := time.Since(begin) * 10
\* if sleepDuration > thirtySeconds { sleepDuration = thirtySeconds }
SleepDurationOf(e) ==
    LET d == Wrap(e * 10)
    IN  IF d > thirtySeconds THEN thirtySeconds ELSE d

\* begin := time.Now(); d.updateRowCount(ctx) returns after any time.
TimedInit ==
    /\ Constructed
    /\ elapsed \in 0..MaxDuration
    /\ sleepDuration = 0
    /\ slept = FALSE

\* The sleep of that iteration: time.Sleep(sleepDuration).
TimedSleep ==
    /\ ~slept
    /\ sleepDuration' = SleepDurationOf(elapsed)
    /\ slept' = TRUE
    /\ UNCHANGED <<dvars, rows, staleRows, canceled, spc, count, dpc, ppc, hvars,
                   cvars, primResult, issued, lastCount, elapsed>>

SleepNext == TimedSleep

SleepSpec == TimedInit /\ [][SleepNext]_vars

\* The goroutine, once started, is scheduled; a pending PartitionedUpdate
\* returns; time passes; and a query that is tried again and again while ctx is
\* live does not fail for ever.
FairSpec ==
    /\ Spec
    /\ WF_vars(Sampler)
    /\ SF_vars(QueryOk)
    /\ WF_vars(Tick)
    /\ WF_vars(PartitionedUpdateOk \/ PartitionedUpdateErr)
    /\ WF_vars(parentDeletionStartedTest \/ parentDeletionStartedSet)

(***************************************************************************)
(* Steps the properties speak of.                                          *)
(***************************************************************************)

\* A successful sample that counted zero rows finishes.
ZeroSampleStep == spc = "status" /\ count = 0 /\ spc' # "status"

\* A step of a parentDeletionStarted call.
ParentStep == ppc' # ppc

\* A step of a deleteRows call.
DeleteStep == dpc' # dpc

\* The goroutine runs a count query (to success or to failure).
QueryStep == spc = "query" /\ spc' # "query"

\* The goroutine writes one of the deleter's fields.
SamplerWrite == spc' # spc /\ dvars' # dvars

NoExternalCall == ~delStarted /\ ~parDelivered

(***************************************************************************)
(* Properties.                                                             *)
(***************************************************************************)

\* C1: once d.status is statusCompleted, no step of any thread makes it
\* anything else.
CompletedIsTerminal ==
    [][status = statusCompleted => status' = statusCompleted]_vars

\* C2: from the first successful sample on, d.totalRows is the count that
\* sample returned (so it is written once and never again), whatever that
\* count was and whatever later samples return.
TotalRowsIsFirstSample ==
    firstCount # None => totalRows = firstCount

\* C3: when the goroutine has been started, ctx is never canceled, the table
\* ends up empty for good and the callers of deleteRows and
\* parentDeletionStarted make their calls in any order and at any time (and at
\* some time their last), d.status ends up statusCompleted for good.
EventualCompletion ==
    (/\ <>(spc # "off")
     /\ [](~canceled)
     /\ <>[](rows = 0)
     /\ <>[](dpc = "idle" /\ ppc = "idle"))
        => <>[](status = statusCompleted)

\* C4: a successful sample that counted zero rows leaves d.status at
\* statusCompleted whatever it was before; and when the first successful sample
\* counts zero rows and neither deleteRows nor parentDeletionStarted has been
\* called, d.status is statusAnalyzing until that sample finishes and
\* statusCompleted from then on, written from statusAnalyzing.
ZeroSampleCompletes ==
    [][ /\ ZeroSampleStep => status' = statusCompleted
        /\ (firstCount' = 0 /\ NoExternalCall') =>
              /\ status' \in {statusAnalyzing, statusCompleted}
              /\ spc' # "status" => (status' = statusCompleted /\ prevStatus' = statusAnalyzing)
      ]_vars

ZeroSampleCompletesWitness ==
    /\ firstCount = 0
    /\ NoExternalCall
    /\ status = statusCompleted
    /\ prevStatus = statusAnalyzing
    /\ spc = "done"

\* C5: once ctx is canceled, a started goroutine returns.
SamplerStopsAfterCancel ==
    [](canceled /\ spc # "off" => <>(spc = "done"))

\* C6: no step of a parentDeletionStarted call taken while d.status is
\* statusCompleted changes d.status.
ParentCallOnCompletedIsNoOp ==
    [][(ParentStep /\ status = statusCompleted) => status' = statusCompleted]_vars

\* C7: a parentDeletionStarted call that finds d.status other than
\* statusCompleted goes on to write it, and its write leaves it at
\* statusCascadeDeleting; a zero-count sample that finishes while d.status is
\* statusCascadeDeleting leaves it at statusCompleted.
ParentCallCascades ==
    [][ /\ (ppc = "called" /\ ParentStep /\ status # statusCompleted) => ppc' = "write"
        /\ (ppc = "write" /\ ParentStep) => status' = statusCascadeDeleting
        /\ (ZeroSampleStep /\ status = statusCascadeDeleting) => status' = statusCompleted
      ]_vars

ParentCallCascadesWitness ==
    /\ parDelivered
    /\ ~delStarted
    /\ status = statusCompleted
    /\ prevStatus = statusCascadeDeleting

\* C8: d.status never goes from statusDeleting or statusCascadeDeleting to
\* statusWaiting.
NoReturnToWaiting ==
    [][(status \in {statusDeleting, statusCascadeDeleting}) => (status' # statusWaiting)]_vars

\* C9: once d.status has been statusCompleted the goroutine runs no count
\* query and writes no field of the deleter; and while ctx is live it returns
\* only on reading statusCompleted.
SamplerQuietOnceCompleted ==
    [][ /\ everCompleted => (~QueryStep /\ ~SamplerWrite)
        /\ (spc # "done" /\ spc' = "done" /\ ~canceled) => status = statusCompleted
      ]_vars

\* C10: d.status becomes statusCompleted only by the step of a successful
\* sample that counted zero rows; deleteRows writes statusDeleting as it starts
\* and no step of deleteRows or of parentDeletionStarted writes statusCompleted.
OnlyZeroSampleCompletes ==
    [][ /\ (status # statusCompleted /\ status' = statusCompleted) =>
              (ZeroSampleStep /\ ~DeleteStep /\ ~ParentStep)
        /\ (dpc = "idle" /\ DeleteStep) => status' = statusDeleting
        /\ (dpc = "pdml" /\ DeleteStep) => status' = status
      ]_vars

OnlyZeroSampleCompletesWitness ==
    /\ lastErr = "nil"
    /\ dpc = "idle"
    /\ rows = 0
    /\ status = statusDeleting

\* C11: a deleteRows call issues PartitionedUpdate once, and what it returns
\* is what that one PartitionedUpdate returned: nil or the error.
ReturnsPrimitiveResult ==
    [][ /\ issued' <= 1
        /\ (dpc = "pdml" /\ DeleteStep) =>
              /\ issued' = 1
              /\ primResult' \in {"nil", "err"}
              /\ lastErr' = primResult'
      ]_vars

ReturnsPrimitiveResultWitness ==
    /\ dpc = "idle"
    /\ issued = 1
    /\ primResult = "err"
    /\ lastErr = "err"
    /\ rows > 0

\* C12: a deleteRows whose PartitionedUpdate fails has written d.status =
\* statusDeleting as it started and nothing else: its return changes no field
\* of the deleter, and as long as neither the goroutine nor a
\* parentDeletionStarted call takes a step, d.status stays statusDeleting up to
\* and at the return.
FailedDeleteWritesOnlyDeleting ==
    [][ /\ (dpc = "idle" /\ DeleteStep) =>
              /\ status' = statusDeleting
              /\ totalRows' = totalRows
              /\ remainedRows' = remainedRows
        /\ (dpc = "pdml" /\ DeleteStep /\ lastErr' = "err") => dvars' = dvars
        /\ (dpc = "pdml" /\ status = statusDeleting /\ spc' = spc /\ ppc' = ppc) =>
              status' = statusDeleting
      ]_vars

FailedDeleteWritesOnlyDeletingWitness ==
    /\ dpc = "idle"
    /\ lastErr = "err"
    /\ status = statusDeleting
    /\ spc = "off"
    /\ ~parDelivered
    /\ rows > 0

\* C13: a sample whose query fails changes no field of the deleter and reaches
\* no caller (nothing any deleteRows returned changes); the goroutine goes on
\* to its sleep, and from the sleep to the top of the loop.
FailedSampleChangesNothing ==
    [][ /\ (QueryStep /\ spc' # "counts") =>
              /\ spc' = "sleep"
              /\ dvars' = dvars
              /\ lastErr' = lastErr
        /\ (spc = "sleep" /\ spc' # spc) => (spc' = "check" /\ dvars' = dvars)
      ]_vars

FailedSampleChangesNothingWitness ==
    /\ spc = "sleep"
    /\ firstCount = None
    /\ status = statusAnalyzing
    /\ ~canceled
    /\ rows > 0

Min(a, b) == IF a <= b THEN a ELSE b

\* C14: whatever time the query took, the loop sleeps for ten times that
\* time or for thirty seconds, whichever is less.
SleepIsTenfoldCapped ==
    slept => /\ sleepDuration = Min(10 * elapsed, thirtySeconds)
             /\ sleepDuration <= thirtySeconds

\* C15: d.remainedRows is 0 until a sample succeeds and from then on the count
\* of the latest successful sample, whatever it was before.
RemainedRowsIsLatestSample ==
    /\ lastCount = None => remainedRows = 0
    /\ lastCount # None => remainedRows = lastCount

RemainedRowsIsLatestSampleWitness ==
    /\ firstCount # None
    /\ lastCount > firstCount
    /\ remainedRows = lastCount
    /\ totalRows = firstCount
    /\ spc = "sleep"

\* C16: either call may follow the other: deleteRows leaves statusDeleting
\* also on a cascade-deleting deleter, parentDeletionStarted's write leaves
\* statusCascadeDeleting also while a deleteRows is in flight; and until a
\* sample has counted zero rows, what the later of them left is changed only by
\* the next such call.
LatestCallDecides ==
    [][ /\ (dpc = "idle" /\ DeleteStep) => status' = statusDeleting
        /\ (ppc = "write" /\ ParentStep) => status' = statusCascadeDeleting
        /\ (/\ ~everCompleted'
            /\ status \in {statusDeleting, statusCascadeDeleting}
            /\ status' # status) => (DeleteStep \/ ParentStep)
      ]_vars

\* C17: in every state, a completed deleter has no rows remaining, and a
\* waiting one has a total and a remainder above zero.
StatusAgreesWithCounts ==
    /\ status = statusCompleted => remainedRows = 0
    /\ status = statusWaiting => (totalRows > 0 /\ remainedRows > 0)

\* C17, amended: the same in every state but those where updateRowCount has
\* written the counts of its sample and not yet looked at d.status.
StatusAgreesWithCountsBetweenSamples ==
    spc # "status" => StatusAgreesWithCounts

StatusAgreesWithCountsWitness ==
    /\ status = statusWaiting
    /\ spc = "counts"
    /\ count = 0
    /\ remainedRows > 0
    /\ totalRows > remainedRows

\* C18: d.totalRows and d.remainedRows change only in a step of the
\* goroutine; no step of deleteRows or of parentDeletionStarted changes them;
\* and no step at all changes d.tableName or d.whereClause.
OnlySamplerWritesCounts ==
    [][ /\ (totalRows' # totalRows \/ remainedRows' # remainedRows) => spc' # spc
        /\ (DeleteStep \/ ParentStep) =>
              (totalRows' = totalRows /\ remainedRows' = remainedRows)
        /\ tableName' = tableName
        /\ whereClause' = whereClause
      ]_vars

OnlySamplerWritesCountsWitness ==
    /\ delStarted
    /\ parDelivered
    /\ dpc = "idle"
    /\ ppc = "idle"
    /\ status = statusCascadeDeleting
    /\ totalRows > 0
    /\ remainedRows > 0
    /\ tableName = "Singers"

\* C19: no step makes d.status statusAnalyzing; a successful sample leaves it
\* other than statusAnalyzing when it finishes; so d.status is statusAnalyzing
\* only while no sample has succeeded, the first one that does being at most
\* under way.
AnalyzingOnlyInitially ==
    [][ /\ status' = statusAnalyzing => status = statusAnalyzing
        /\ (spc \in {"status", "setWaiting"} /\ spc' = "sleep") =>
              status' # statusAnalyzing
        /\ (status' = statusAnalyzing /\ firstCount' # None) =>
              spc' \in {"status", "setWaiting"}
      ]_vars

AnalyzingOnlyInitiallyWitness ==
    /\ firstCount > 0
    /\ status = statusWaiting
    /\ prevStatus = statusAnalyzing
    /\ spc = "check"
    /\ NoExternalCall

====
